---- MODULE Spec2Model ----
(***************************************************************************)
(* aaisp-chaos: the CHAOS v2 API client (package chaos) and the Prometheus *)
(* exporter built on it (cmd/aaisp_exporter).                              *)
(*                                                                         *)
(* Two specifications share the variables:                                 *)
(*   Spec        the exporter process: main(), concurrent scrapes of       *)
(*               /metrics, broadbandCollector.Collect, scrapeSuccessGauge. *)
(*   SpecClient  the client alone: BroadbandInfo and BroadbandQuota        *)
(*               applied to every upstream response of the bounded set.    *)
(***************************************************************************)
EXTENDS Integers, Sequences

VARIABLES
    env,          \* CHAOS_CONTROL_LOGIN / CHAOS_CONTROL_PASSWORD as os.Getenv returns them
    proc,         \* position of main(): "start", "listening", "exited"
    registered,   \* prometheus.MustRegister(collector); MustRegister(scrapeSuccessGauge) done
    gauge,        \* value of the process-wide scrapeSuccessGauge
    pc,           \* per scrape: position of the request served for /metrics
    resp,         \* per scrape: the upstream response makeRequest received
    posts,        \* per scrape: the POSTs this scrape sent upstream (path, form)
    out,          \* per scrape: the metrics Collect sent on its channel, in order
    success,      \* per scrape: the aaisp_scrape_success samples gathered for it
    last,         \* outcome of the most recent upstream fetch: "none", "ok", "fail"
    overlapped,   \* some scrape was started while another was being served
    failed,       \* class of the most recent upstream failure logged, "nil" if none
    call          \* SpecClient: the client call made (endpoint, response, result)

vars == <<env, proc, registered, gauge, pc, resp, posts, out, success,
          last, overlapped, failed, call>>

(***************************************************************************)
(* Bounds                                                                  *)
(***************************************************************************)
\* longest data array of an upstream envelope
MaxLines == 2

\* the scrapes that may be served at the same time (one goroutine each)
Scrapes == {"s1", "s2"}

(***************************************************************************)
(* Text.  A Go string that is parsed or formatted is a sequence of         *)
(* one-character strings; messages that are only carried are TLA+ strings. *)
(***************************************************************************)
DigitChars == <<"0", "1", "2", "3", "4", "5", "6", "7", "8", "9">>

IsDigit(c) == \E i \in 1..10 : DigitChars[i] = c

DigitVal(c) == (CHOOSE i \in 1..10 : DigitChars[i] = c) - 1

\* strconv.ParseInt(s, 10, 64) as encoding/json calls it for an int field,
\* on unsigned decimal text: -1 stands for the returned error.
RECURSIVE ParseDigits(_, _)
ParseDigits(s, acc) ==
    IF s = <<>> THEN acc
    ELSE IF ~IsDigit(Head(s)) THEN -1
    ELSE ParseDigits(Tail(s), acc * 10 + DigitVal(Head(s)))

ParseInt(s) == IF s = <<>> THEN -1 ELSE ParseDigits(s, 0)

\* strconv.Itoa for n >= 0
RECURSIVE Itoa(_)
Itoa(n) ==
    IF n < 10 THEN <<DigitChars[n + 1]>>
    ELSE Itoa(n \div 10) \o <<DigitChars[(n % 10) + 1]>>

(***************************************************************************)
(* JSON values of an upstream record.  A scalar is [quoted, text]: a JSON  *)
(* string "text" when quoted, the bare literal text otherwise.  A          *)
(* timestamp string is its civil fields, or does not match the layout.     *)
(***************************************************************************)
Str(t) == [quoted |-> TRUE, text |-> t]

Num(t) == [quoted |-> FALSE, text |-> t]

Stamp(y, mo, d, h, mi, s) ==
    [layout |-> TRUE, y |-> y, mo |-> mo, d |-> d, h |-> h, mi |-> mi, s |-> s]

BadStamp ==
    [layout |-> FALSE, y |-> 0, mo |-> 0, d |-> 0, h |-> 0, mi |-> 0, s |-> 0]

\* an int field tagged `json:"...,string"`: the value must be a JSON string
\* holding the number
DecodeIntString(v) == IF v.quoted THEN ParseInt(v.text) ELSE -1

\* an int field without the string option: the value must be a bare number
DecodeInt(v) == IF v.quoted THEN -1 ELSE ParseInt(v.text)

\* Offset from UTC, in hours, of Europe/London at a civil date.  British
\* Summer Time runs from the last Sunday of March to the last Sunday of
\* October; the dates drawn here lie outside those two months.
LondonOffset(t) == IF t.mo \in 4..9 THEN 1 ELSE 0

NoTime == [ok |-> FALSE, y |-> 0, mo |-> 0, d |-> 0, h |-> 0, mi |-> 0, s |-> 0, offset |-> 0]

\* UnmarshalJSON parsing with time.Parse, which reads the text as UTC
UnmarshalJSONUTC(t) ==
    IF ~t.layout THEN NoTime
    ELSE [ok |-> TRUE, y |-> t.y, mo |-> t.mo, d |-> t.d, h |-> t.h, mi |-> t.mi,
          s |-> t.s, offset |-> 0]

\* chaosTime.UnmarshalJSON: time.ParseInLocation("2006-01-02 15:04:05", s, loc)
UnmarshalJSON(t) ==
    IF ~t.layout THEN NoTime
    ELSE [ok |-> TRUE, y |-> t.y, mo |-> t.mo, d |-> t.d, h |-> t.h, mi |-> t.mi,
          s |-> t.s, offset |-> LondonOffset(t)]

(***************************************************************************)
(* The upstream: records, envelopes, HTTP responses                        *)
(***************************************************************************)
LineA ==
    [id |-> Str(<<"1">>), login |-> "a@1", postcode |-> "AB1 2CD",
     tx_rate |-> Str(<<"4", "0">>), rx_rate |-> Str(<<"8">>),
     tx_rate_adjusted |-> Str(<<"3", "9">>),
     quota_monthly |-> Str(<<"1", "0", "0">>), quota_remaining |-> Str(<<"2", "5">>),
     quota_timestamp |-> Stamp(2023, 6, 15, 12, 0, 0)]

LineB ==
    [id |-> Str(<<"2">>), login |-> "b@1", postcode |-> "EF3 4GH",
     tx_rate |-> Str(<<"7", "0">>), rx_rate |-> Str(<<"1", "9">>),
     tx_rate_adjusted |-> Str(<<"6", "8">>),
     quota_monthly |-> Str(<<"2", "0", "0">>), quota_remaining |-> Str(<<"1", "5", "0">>),
     quota_timestamp |-> Stamp(2023, 1, 15, 12, 0, 0)]

\* an identifier with a leading zero
LineZ == [LineA EXCEPT !.id = Str(<<"0", "7">>)]

\* a timestamp that is not "YYYY-MM-DD HH:MM:SS"
LineBadStamp == [LineB EXCEPT !.quota_timestamp = BadStamp]

\* quota_monthly as a plain JSON number, the form BroadbandQuota declares
LineNumQuota == [LineB EXCEPT !.quota_monthly = Num(<<"2", "0", "0">>)]

\* a rate that is not a number
LineBadRate == [LineA EXCEPT !.rx_rate = Str(<<"x">>)]

RawLines == {LineA, LineB, LineZ, LineBadStamp, LineNumQuota, LineBadRate}

SeqsUpTo(S, n) == UNION {[1..k -> S] : k \in 0..n}

ErrorStrings == {"", "Invalid login"}

\* text that is not JSON at all
Garbage == [json |-> FALSE, data |-> <<>>, error |-> ""]

\* {"info"|"quota": data, "error": error}
Envelope(data, error) == [json |-> TRUE, data |-> data, error |-> error]

Bodies(lines) ==
    {Garbage} \cup {Envelope(d, e) : d \in SeqsUpTo(lines, MaxLines), e \in ErrorStrings}

StatusOK == 200

Statuses == {StatusOK, 500}

\* client.Do failed (DNS, connect, timeout): there is no response
DoFailed == [transport |-> "dofail", status |-> 0, body |-> Garbage]

\* the response arrived and reading its body failed
ReadFailed == [transport |-> "readfail", status |-> StatusOK, body |-> Garbage]

Completed(status, body) == [transport |-> "ok", status |-> status, body |-> body]

Responses ==
    {DoFailed, ReadFailed}
        \cup {Completed(st, b) : st \in Statuses, b \in Bodies(RawLines)}

(***************************************************************************)
(* package chaos                                                           *)
(***************************************************************************)
NoErr == [kind |-> "nil", code |-> 0, msg |-> ""]

Error(kind, code, msg) == [kind |-> kind, code |-> code, msg |-> msg]

\* (nil, err)
Failure(err) == [lines |-> <<>>, err |-> err]

\* Auth.form: only the non-empty credentials are sent
form(a) ==
    {f \in {"account_number", "account_password", "control_login", "control_password"} :
        a[f] # ""}

\* makeRequest without the test of resp.StatusCode
makeRequestAnyStatus(r) ==
    IF r.transport = "dofail"
    THEN [body |-> Garbage, err |-> Error("transport", 0, "Post: request failed")]
    ELSE IF r.transport = "readfail"
    THEN [body |-> Garbage, err |-> Error("transport", 0, "error reading response body")]
    ELSE [body |-> r.body, err |-> NoErr]

\* what makeRequest returns for the response its single POST met
makeRequest(r) ==
    IF r.transport = "dofail"
    THEN [body |-> Garbage, err |-> Error("transport", 0, "Post: request failed")]
    ELSE IF r.transport = "readfail"
    THEN [body |-> Garbage, err |-> Error("transport", 0, "error reading response body")]
    ELSE IF r.status # StatusOK
    THEN [body |-> Garbage, err |-> Error("status", r.status, "bad response code")]
    ELSE [body |-> r.body, err |-> NoErr]

\* the BroadbandInfo struct and its json tags
DecodeInfo(raw) ==
    [ID             |-> DecodeIntString(raw.id),
     Login          |-> raw.login,
     Postcode       |-> raw.postcode,
     TXRate         |-> DecodeIntString(raw.tx_rate),
     RXRate         |-> DecodeIntString(raw.rx_rate),
     TXRateAdjusted |-> DecodeIntString(raw.tx_rate_adjusted),
     QuotaMonthly   |-> DecodeIntString(raw.quota_monthly),
     QuotaRemaining |-> DecodeIntString(raw.quota_remaining),
     QuotaTimestamp |-> UnmarshalJSON(raw.quota_timestamp)]

InfoDecoded(l) ==
    /\ l.ID >= 0 /\ l.TXRate >= 0 /\ l.RXRate >= 0 /\ l.TXRateAdjusted >= 0
    /\ l.QuotaMonthly >= 0 /\ l.QuotaRemaining >= 0
    /\ l.QuotaTimestamp.ok

\* the BroadbandQuota struct and its json tags: quota_monthly has no string
\* option, and the option on quota_timestamp does not apply to a struct
DecodeQuota(raw) ==
    [ID             |-> DecodeIntString(raw.id),
     QuotaMonthly   |-> DecodeInt(raw.quota_monthly),
     QuotaRemaining |-> DecodeIntString(raw.quota_remaining),
     QuotaTimestamp |-> UnmarshalJSON(raw.quota_timestamp)]

QuotaDecoded(l) ==
    /\ l.ID >= 0 /\ l.QuotaMonthly >= 0 /\ l.QuotaRemaining >= 0
    /\ l.QuotaTimestamp.ok

\* BroadbandInfo without the test of r.Error
BroadbandInfoIgnoresError(r) ==
    LET got  == makeRequest(r)
        info == [i \in 1..Len(got.body.data) |-> DecodeInfo(got.body.data[i])]
    IN  IF got.err # NoErr THEN Failure(got.err)
        ELSE IF ~got.body.json \/ \E i \in 1..Len(info) : ~InfoDecoded(info[i])
        THEN Failure(Error("decode", 0, "BroadbandInfo JSON decode"))
        ELSE [lines |-> info, err |-> NoErr]

\* API.BroadbandInfo
BroadbandInfo(r) ==
    LET got  == makeRequest(r)
        info == [i \in 1..Len(got.body.data) |-> DecodeInfo(got.body.data[i])]
    IN  IF got.err # NoErr THEN Failure(got.err)
        ELSE IF ~got.body.json \/ \E i \in 1..Len(info) : ~InfoDecoded(info[i])
        THEN Failure(Error("decode", 0, "BroadbandInfo JSON decode"))
        ELSE IF got.body.error # ""
        THEN Failure(Error("upstream", 0, got.body.error))
        ELSE [lines |-> info, err |-> NoErr]

\* API.BroadbandQuota
BroadbandQuota(r) ==
    LET got   == makeRequest(r)
        quota == [i \in 1..Len(got.body.data) |-> DecodeQuota(got.body.data[i])]
    IN  IF got.err # NoErr THEN Failure(got.err)
        ELSE IF ~got.body.json \/ \E i \in 1..Len(quota) : ~QuotaDecoded(quota[i])
        THEN Failure(Error("decode", 0, "BroadbandQuota JSON decode"))
        ELSE IF got.body.error # ""
        THEN Failure(Error("upstream", 0, got.body.error))
        ELSE [lines |-> quota, err |-> NoErr]

(***************************************************************************)
(* cmd/aaisp_exporter                                                      *)
(***************************************************************************)
\* the chaos.Auth main() builds from the environment
Auth ==
    [account_number |-> "", account_password |-> "",
     control_login |-> env.login, control_password |-> env.password]

\* http.NewRequest("POST", api.Endpoint+url, api.login.Encode()) as Collect's
\* call of BroadbandInfo builds it
Post == [path |-> "/broadband/info", form |-> form(Auth)]

\* prometheus.MustNewConstMetric(desc, valueType, value, strconv.Itoa(line.ID))
Metric(name, type, value, id) ==
    [name |-> name, type |-> type, value |-> value, line_id |-> Itoa(id)]

\* the body of Collect's loop for one line
LineMetrics(line) ==
    <<Metric("aaisp_broadband_quota_remaining", "gauge", line.QuotaRemaining, line.ID),
      Metric("aaisp_broadband_quota_total", "counter", line.QuotaMonthly, line.ID),
      Metric("aaisp_broadband_tx_rate", "gauge", line.TXRate, line.ID),
      Metric("aaisp_broadband_rx_rate", "gauge", line.RXRate, line.ID)>>

\* for _, line := range lines
RECURSIVE RangeLines(_)
RangeLines(lines) ==
    IF lines = <<>> THEN <<>>
    ELSE LineMetrics(Head(lines)) \o RangeLines(Tail(lines))

\* Collect ending the process on a failed fetch (log.Fatal for log.Debug)
CollectFatal(info, g) ==
    IF info.err # NoErr
    THEN [gauge |-> 0, metrics |-> <<>>, fatal |-> TRUE]
    ELSE [gauge |-> 1, metrics |-> RangeLines(info.lines), fatal |-> FALSE]

\* Collect returning on a failed fetch without scrapeSuccessGauge.Set(0)
CollectNoReset(info, g) ==
    IF info.err # NoErr
    THEN [gauge |-> g, metrics |-> <<>>, fatal |-> FALSE]
    ELSE [gauge |-> 1, metrics |-> RangeLines(info.lines), fatal |-> FALSE]

\* broadbandCollector.Collect once BroadbandInfo has returned info, with the
\* gauge at g: the value the gauge is left at, the metrics sent on the
\* channel, and whether the process is ended (log.Debug does not end it)
Collect(info, g) ==
    IF info.err # NoErr
    THEN [gauge |-> 0, metrics |-> <<>>, fatal |-> FALSE]
    ELSE [gauge |-> 1, metrics |-> RangeLines(info.lines), fatal |-> FALSE]

\* the responses the upstream gives the exporter: one of each class of
\* failure, and every snapshot of up to MaxLines lines
ScrapeLines == {LineA, LineB}

Upstream ==
    {DoFailed,
     Completed(500, Envelope(<<LineA>>, "")),
     Completed(StatusOK, Garbage),
     Completed(StatusOK, Envelope(<<>>, "Invalid login"))}
        \cup {Completed(StatusOK, Envelope(d, "")) : d \in SeqsUpTo(ScrapeLines, MaxLines)}

NoResp == [transport |-> "none", status |-> 0, body |-> Garbage]

NoCall == [endpoint |-> "none", resp |-> NoResp, lines |-> <<>>, err |-> NoErr]

Init ==
    /\ env \in [login : {"", "user"}, password : {"", "secret"}]
    /\ proc = "start"
    /\ registered = FALSE
    /\ gauge = 0
    /\ pc = [s \in Scrapes |-> "idle"]
    /\ resp = [s \in Scrapes |-> NoResp]
    /\ posts = [s \in Scrapes |-> <<>>]
    /\ out = [s \in Scrapes |-> <<>>]
    /\ success = [s \in Scrapes |-> <<>>]
    /\ last = "none"
    /\ overlapped = FALSE
    /\ failed = "nil"
    /\ call = NoCall

\* main() without the credentials switch
MainUnchecked ==
    /\ proc = "start"
    /\ registered' = TRUE
    /\ \E bound \in BOOLEAN :
         proc' = IF bound THEN "listening" ELSE "exited"
    /\ UNCHANGED <<env, gauge, pc, resp, posts, out, success, last, overlapped,
                   failed, call>>

\* main(): the credentials switch, the two MustRegister calls, ListenAndServe
Main ==
    /\ proc = "start"
    /\ IF env.login = "" \/ env.password = ""
       THEN /\ proc' = "exited"
            /\ UNCHANGED registered
       ELSE /\ registered' = TRUE
            /\ \E bound \in BOOLEAN :
                 proc' = IF bound THEN "listening" ELSE "exited"
    /\ UNCHANGED <<env, gauge, pc, resp, posts, out, success, last, overlapped,
                   failed, call>>

\* a request for /metrics is accepted and served on its own goroutine: the
\* registry starts to gather from the registered collectors
Serve(s) ==
    /\ proc = "listening"
    /\ pc[s] = "idle"
    /\ pc' = [pc EXCEPT ![s] = "collecting"]
    /\ overlapped' = (overlapped \/ \E t \in Scrapes : pc[t] # "idle")
    /\ UNCHANGED <<env, proc, registered, gauge, resp, posts, out, success, last,
                   failed, call>>

\* makeRequest sending the POST again when the first attempt failed
CollectCallRetry(s) ==
    /\ proc = "listening"
    /\ pc[s] = "collecting"
    /\ \E r \in Upstream :
         /\ resp' = [resp EXCEPT ![s] = r]
         /\ last' = IF BroadbandInfo(r).err = NoErr THEN "ok" ELSE "fail"
         /\ posts' = [posts EXCEPT ![s] =
                      IF r.transport = "ok" THEN Append(@, Post)
                      ELSE @ \o <<Post, Post>>]
    /\ pc' = [pc EXCEPT ![s] = "fetched"]
    /\ UNCHANGED <<env, proc, registered, gauge, out, success, overlapped, failed, call>>

\* Collect calls BroadbandInfo, whose makeRequest sends one POST of the
\* credentials form and blocks until the upstream has answered or failed
CollectCall(s) ==
    /\ proc = "listening"
    /\ pc[s] = "collecting"
    /\ \E r \in Upstream :
         /\ resp' = [resp EXCEPT ![s] = r]
         /\ last' = IF BroadbandInfo(r).err = NoErr THEN "ok" ELSE "fail"
    /\ posts' = [posts EXCEPT ![s] = Append(@, Post)]
    /\ pc' = [pc EXCEPT ![s] = "fetched"]
    /\ UNCHANGED <<env, proc, registered, gauge, out, success, overlapped, failed, call>>

\* the rest of Collect: the error branch or Set(1) and the loop
CollectReturn(s) ==
    /\ proc = "listening"
    /\ pc[s] = "fetched"
    /\ LET info == BroadbandInfo(resp[s])
           c    == Collect(info, gauge)
       IN  /\ gauge' = c.gauge
           /\ out' = [out EXCEPT ![s] = c.metrics]
           /\ proc' = IF c.fatal THEN "exited" ELSE proc
           /\ failed' = IF info.err # NoErr THEN info.err.kind ELSE failed
    /\ pc' = [pc EXCEPT ![s] = "collected"]
    /\ UNCHANGED <<env, registered, resp, posts, success, last, overlapped, call>>

\* the registry collects scrapeSuccessGauge, registered as a collector of
\* its own: the sample of this scrape is the gauge's value at that moment.
\* The registry runs the registered collectors in no fixed order.
GaugeCollect(s) ==
    /\ proc = "listening"
    /\ pc[s] \in {"collecting", "fetched", "collected"}
    /\ success[s] = <<>>
    /\ success' = [success EXCEPT ![s] = <<gauge>>]
    /\ UNCHANGED <<env, proc, registered, gauge, pc, resp, posts, out, last,
                   overlapped, failed, call>>

\* every collector has been gathered: the exposition is written and the
\* request is over
Respond(s) ==
    /\ proc = "listening"
    /\ pc[s] = "collected"
    /\ success[s] # <<>>
    /\ pc' = [pc EXCEPT ![s] = "idle"]
    /\ resp' = [resp EXCEPT ![s] = NoResp]
    /\ posts' = [posts EXCEPT ![s] = <<>>]
    /\ out' = [out EXCEPT ![s] = <<>>]
    /\ success' = [success EXCEPT ![s] = <<>>]
    /\ UNCHANGED <<env, proc, registered, gauge, last, overlapped, failed, call>>

Next ==
    \/ Main
    \/ \E s \in Scrapes : Serve(s)
    \/ \E s \in Scrapes : CollectCall(s)
    \/ \E s \in Scrapes : CollectReturn(s)
    \/ \E s \in Scrapes : GaugeCollect(s)
    \/ \E s \in Scrapes : Respond(s)

Spec == Init /\ [][Next]_vars

(***************************************************************************)
(* The client on its own                                                   *)
(***************************************************************************)
\* the client keeps nothing between calls: one call is made and returns
CallInfo ==
    /\ call = NoCall
    /\ \E r \in Responses :
         LET got == BroadbandInfo(r)
         IN  call' = [endpoint |-> "info", resp |-> r, lines |-> got.lines, err |-> got.err]
    /\ UNCHANGED <<env, proc, registered, gauge, pc, resp, posts, out, success,
                   last, overlapped, failed>>

CallQuota ==
    /\ call = NoCall
    /\ \E r \in Responses :
         LET got == BroadbandQuota(r)
         IN  call' = [endpoint |-> "quota", resp |-> r, lines |-> got.lines, err |-> got.err]
    /\ UNCHANGED <<env, proc, registered, gauge, pc, resp, posts, out, success,
                   last, overlapped, failed>>

\* the caller drops the result
Return ==
    /\ call # NoCall
    /\ call' = NoCall
    /\ UNCHANGED <<env, proc, registered, gauge, pc, resp, posts, out, success,
                   last, overlapped, failed>>

NextClient == CallInfo \/ CallQuota \/ Return

SpecClient == Init /\ [][NextClient]_vars

(***************************************************************************)
(* Properties                                                              *)
(***************************************************************************)
\* the scrape of s has gathered both collectors and is about to respond
Complete(s) == pc[s] = "collected" /\ success[s] # <<>>

\* what BroadbandInfo returned to the Collect of scrape s
Fetched(s) == BroadbandInfo(resp[s])

\* the value aaisp_scrape_success should show for scrape s
Own(s) == IF Fetched(s).err = NoErr THEN 1 ELSE 0

IsNumber(text) == text # <<>> /\ \A i \in 1..Len(text) : IsDigit(text[i])

NumericString(v) == v.quoted /\ IsNumber(v.text)

\* a record of the info array as the upstream documents it
WellFormedInfo(raw) ==
    /\ NumericString(raw.id) /\ NumericString(raw.tx_rate) /\ NumericString(raw.rx_rate)
    /\ NumericString(raw.tx_rate_adjusted) /\ NumericString(raw.quota_monthly)
    /\ NumericString(raw.quota_remaining)
    /\ raw.quota_timestamp.layout

\* a record of the quota array in the form the BroadbandQuota type declares
WellFormedQuota(raw) ==
    /\ NumericString(raw.id)
    /\ ~raw.quota_monthly.quoted /\ IsNumber(raw.quota_monthly.text)
    /\ NumericString(raw.quota_remaining)
    /\ raw.quota_timestamp.layout

WellFormed(endpoint, body) ==
    /\ body.json
    /\ \A i \in 1..Len(body.data) :
         IF endpoint = "info" THEN WellFormedInfo(body.data[i])
         ELSE WellFormedQuota(body.data[i])

\* the client was called and the HTTP exchange completed with a well-formed
\* envelope in the body
Enveloped ==
    /\ call.endpoint # "none"
    /\ call.resp.transport = "ok"
    /\ WellFormed(call.endpoint, call.resp.body)

SameStamp(t, raw) ==
    /\ t.ok
    /\ <<t.y, t.mo, t.d, t.h, t.mi, t.s>> = <<raw.y, raw.mo, raw.d, raw.h, raw.mi, raw.s>>
    /\ t.offset = LondonOffset(raw)

\* C1 (as claimed): a scrape whose fetch failed, served while no other scrape
\* ever overlapped one, carries no line metric and aaisp_scrape_success 0.
C1_FailedScrapeReportsDown ==
    \A s \in Scrapes :
        (~overlapped /\ Complete(s) /\ Fetched(s).err # NoErr)
            => (out[s] = <<>> /\ success[s] = <<0>>)

\* C2 (as claimed): a scrape whose fetch returned N lines, served while no
\* other scrape ever overlapped one, carries the 4*N line metrics, four per
\* line in upstream order and labelled with the line's identifier, and
\* aaisp_scrape_success 1.
C2_SnapshotScrapeReportsUp ==
    \A s \in Scrapes :
        (~overlapped /\ Complete(s) /\ Fetched(s).err = NoErr)
            => LET lines == Fetched(s).lines
               IN  /\ Len(out[s]) = 4 * Len(lines)
                   /\ \A i \in 1..Len(lines) :
                        /\ \A k \in 1..4 : out[s][4 * (i - 1) + k].line_id = Itoa(lines[i].ID)
                        /\ out[s][4 * (i - 1) + 1].value = lines[i].QuotaRemaining
                        /\ out[s][4 * (i - 1) + 2].value = lines[i].QuotaMonthly
                        /\ out[s][4 * (i - 1) + 3].value = lines[i].TXRate
                        /\ out[s][4 * (i - 1) + 4].value = lines[i].RXRate
                   /\ success[s] = <<1>>

\* C3 (as claimed): a well-formed envelope with a non-empty error makes the
\* client return no records and that error string, whatever the HTTP status.
C3_ErrorFieldAnyStatus ==
    (Enveloped /\ call.resp.body.error # "")
        => (call.lines = <<>> /\ call.err # NoErr /\ call.err.msg = call.resp.body.error)

\* C3 (amended): with HTTP status 200, a well-formed envelope with a
\* non-empty error makes BroadbandInfo and BroadbandQuota return no records
\* and an error whose message is that string.
C3_ErrorFieldStatusOK ==
    (Enveloped /\ call.resp.status = StatusOK /\ call.resp.body.error # "")
        => (call.lines = <<>> /\ call.err # NoErr /\ call.err.msg = call.resp.body.error)

C3_Witness ==
    /\ Enveloped /\ call.endpoint = "info"
    /\ call.resp.status = StatusOK /\ call.resp.body.error = "Invalid login"
    /\ Len(call.resp.body.data) = 2
    /\ call.err.kind = "upstream"

\* C4: a completed response whose status is not 200 makes the client return
\* no records and an error carrying that status code, whatever the body
\* holds; the body is not decoded.
C4_StatusError ==
    (call.endpoint # "none" /\ call.resp.transport = "ok" /\ call.resp.status # StatusOK)
        => /\ call.lines = <<>>
           /\ call.err.kind = "status"
           /\ call.err.code = call.resp.status

C4_Witness ==
    /\ Enveloped /\ call.endpoint = "quota"
    /\ call.resp.status = 500
    /\ call.resp.body.error = "" /\ Len(call.resp.body.data) > 0
    /\ call.err.code = 500

C6_EachScrapeReportsOwnOutcome ==
    ((\A s \in Scrapes : Complete(s)) /\ (\E s, t \in Scrapes : Own(s) # Own(t)))
        => /\ \A s \in Scrapes :
                /\ success[s] = <<Own(s)>>
                /\ out[s] = RangeLines(Fetched(s).lines)
           /\ gauge \in {0, 1}

\* C7: with both credentials missing from the environment the process never
\* listens, never registers the collector and never serves a scrape.
C7_NoCredentialsNoListener ==
    (env.login = "" /\ env.password = "")
        => /\ proc # "listening"
           /\ ~registered
           /\ \A s \in Scrapes : pc[s] = "idle" /\ posts[s] = <<>>

C7_Witness == env.login = "" /\ env.password = "" /\ proc = "exited"

\* C8: once the process listens it keeps listening, whatever the upstream
\* does to its scrapes: the only exits are those of main() at startup.
C8_FailureNeverExits == [][proc = "listening" => proc' = "listening"]_vars

C8_Witness ==
    /\ failed = "upstream"
    /\ proc = "listening"
    /\ \E s \in Scrapes : Complete(s) /\ Fetched(s).err = NoErr /\ out[s] # <<>>

\* C9: when no scrapes have overlapped and no Collect is running, the gauge
\* is 1 if the most recent fetch succeeded and 0 if it failed.
C9_GaugeFollowsLastFetch ==
    (~overlapped /\ last # "none" /\ \A s \in Scrapes : pc[s] \in {"idle", "collected"})
        => gauge = (IF last = "ok" THEN 1 ELSE 0)

C9_Witness ==
    /\ ~overlapped /\ \A s \in Scrapes : pc[s] = "idle"
    /\ failed = "decode"
    /\ last = "ok" /\ gauge = 1

\* C10: a scrape has sent no POST before its Collect calls the client and
\* exactly one once the call has returned, failed or not.
C10_OnePostPerScrape ==
    \A s \in Scrapes :
        /\ pc[s] \in {"idle", "collecting"} => posts[s] = <<>>
        /\ pc[s] \in {"fetched", "collected"} =>
             (Len(posts[s]) = 1 /\ posts[s][1].path = "/broadband/info")

C10_Witness ==
    \E s \in Scrapes :
        /\ pc[s] = "collected" /\ resp[s] = DoFailed
        /\ posts[s] = <<[path |-> "/broadband/info",
                         form |-> {"control_login", "control_password"}]>>
        /\ gauge = 0 /\ failed = "transport"

====
